---------------------------- MODULE Spec2Model ----------------------------
(***************************************************************************)
(* A model of CCloudChargebackHandler                                      *)
(* (src/data_processing/data_handlers/chargeback_handler.py): the          *)
(* chargeback ledger keyed by (principal, hour), the product-type rules    *)
(* of compute_output, the sliding query window and the hourly exposure     *)
(* cursor.                                                                 *)
(*                                                                         *)
(* Conventions.                                                            *)
(*  - A datetime is the number of hours since the epoch, UTC.              *)
(*  - An amount is a decimal.Decimal: a record [c, e] that stands for      *)
(*    c * 10^e, c a sequence of decimal digits, least significant first,   *)
(*    without leading or trailing zeros.  Arithmetic rounds to the         *)
(*    context precision of 28 significant digits, half to even, as         *)
(*    decimal's default context does.                                      *)
(*  - An exception raised inside a handler ends the handler where it is    *)
(*    raised; what was merged before stays merged.  The variable raised    *)
(*    holds the exception of the last operation.                           *)
(*  - The providers of billing rows, metric rows and inventory objects,    *)
(*    and the helpers inherited from AbstractDataHandler, are not part of  *)
(*    this file; they are modelled by their interface.                     *)
(*  - Line 63 (start_date normalisation) is modelled by its docstring:     *)
(*    the start date becomes midnight UTC of its day.                      *)
(*  - The helpers of update and expose_prometheus_metrics                  *)
(*    (__generate_next_timestamp, __get_dataset_for_exact_timestamp) are   *)
(*    modelled as the next hour and the ledger entries of an hour.         *)
(***************************************************************************)
EXTENDS Integers, Sequences, FiniteSets, TLC

(***************************************************************************)
(* Natural numbers of any size: sequences of digits, least significant     *)
(* first, <<>> for zero.                                                   *)
(***************************************************************************)

\* The digits are handled Chunk at a time, so that the depth of a recursion
\* stays a sixth of the number of digits.
Chunk == 6

ChunkBase == 1000000

RECURSIVE StripHigh(_)
StripHigh(s) ==
    IF s = <<>> THEN <<>>
    ELSE IF s[Len(s)] = 0 THEN StripHigh(SubSeq(s, 1, Len(s) - 1))
    ELSE s

RECURSIVE NatDigits(_)
NatDigits(n) ==
    IF n = 0 THEN <<>> ELSE <<n % 10>> \o NatDigits(n \div 10)

\* The w low digits of n.
LowDigits(n, w) ==
    LET d == NatDigits(n) IN [i \in 1..w |-> IF i <= Len(d) THEN d[i] ELSE 0]

\* The number the first (at most Chunk) digits of s stand for.
LowValue(s) ==
    LET d(i) == IF i <= Len(s) THEN s[i] ELSE 0
    IN  d(1) + 10 * d(2) + 100 * d(3) + 1000 * d(4) + 10000 * d(5)
            + 100000 * d(6)

Rest(s) == IF Len(s) <= Chunk THEN <<>> ELSE SubSeq(s, Chunk + 1, Len(s))

RECURSIVE AddCarry(_, _, _)
AddCarry(a, b, carry) ==
    IF a = <<>> /\ b = <<>>
    THEN NatDigits(carry)
    ELSE LET t == LowValue(a) + LowValue(b) + carry
         IN  LowDigits(t % ChunkBase, Chunk)
                 \o AddCarry(Rest(a), Rest(b), t \div ChunkBase)

NatAdd(a, b) == StripHigh(AddCarry(a, b, 0))

RECURSIVE MulCarry(_, _, _)
MulCarry(a, k, carry) ==
    IF a = <<>>
    THEN NatDigits(carry)
    ELSE LET t == LowValue(a) * k + carry
         IN  LowDigits(t % ChunkBase, Chunk)
                 \o MulCarry(Rest(a), k, t \div ChunkBase)

NatMulSmall(a, k) == StripHigh(MulCarry(a, k, 0))

NatShift(a, n) == IF a = <<>> THEN <<>> ELSE [i \in 1..n |-> 0] \o a

RECURSIVE NatMulBy(_, _)
NatMulBy(a, b) ==
    IF b = <<>> THEN <<>>
    ELSE NatAdd(NatMulSmall(a, Head(b)), NatShift(NatMulBy(a, Tail(b)), 1))

NatMul(a, b) == IF Len(b) <= Len(a) THEN NatMulBy(a, b) ELSE NatMulBy(b, a)

\* Quotient and remainder of a by a small k, the high digits first: hi is the
\* result for the digits above the low chunk of a.
DivStep(hi, a, k) ==
    LET w == IF Len(a) <= Chunk THEN Len(a) ELSE Chunk
        t == hi.r * (10 ^ w) + LowValue(a)
    IN  [q |-> LowDigits(t \div k, w) \o hi.q, r |-> t % k]

RECURSIVE DivRec(_, _)
DivRec(a, k) ==
    IF a = <<>> THEN [q |-> <<>>, r |-> 0]
    ELSE DivStep(DivRec(Rest(a), k), a, k)

NatDivSmall(a, k) ==
    LET d == DivRec(a, k) IN [q |-> StripHigh(d.q), r |-> d.r]

(***************************************************************************)
(* decimal.Decimal, non-negative, in the default context.                  *)
(***************************************************************************)

DecimalPrec == 28

\* c without its low zeros, the exponent raised by their number.
DecCanon(c, e) ==
    IF \A i \in 1..Len(c) : c[i] = 0 THEN [c |-> <<>>, e |-> 0]
    ELSE LET lo == CHOOSE i \in 1..Len(c) :
                       c[i] # 0 /\ \A j \in 1..(i - 1) : c[j] = 0
         IN  [c |-> SubSeq(c, lo, Len(c)), e |-> e + lo - 1]

DecRound(c, e) ==
    IF Len(c) <= DecimalPrec THEN DecCanon(c, e)
    ELSE LET k    == Len(c) - DecimalPrec
             kept == SubSeq(c, k + 1, Len(c))
             d    == c[k]
             rest == \E i \in 1..(k - 1) : c[i] # 0
             up   == d > 5 \/ (d = 5 /\ (rest \/ kept[1] % 2 = 1))
         IN  DecCanon(IF up THEN NatAdd(kept, <<1>>) ELSE kept, e + k)

DecFromInt(n) == DecCanon(NatDigits(n), 0)

DecZero == DecFromInt(0)

MinInt(x, y) == IF x <= y THEN x ELSE y

DecAlign(a, e) == NatShift(a.c, a.e - e)

DecAddExact(a, b) ==
    LET e == MinInt(a.e, b.e)
    IN  DecCanon(NatAdd(DecAlign(a, e), DecAlign(b, e)), e)

DecAdd(a, b) ==
    LET e == MinInt(a.e, b.e)
    IN  DecRound(NatAdd(DecAlign(a, e), DecAlign(b, e)), e)

DecMul(a, b) == DecRound(NatMul(a.c, b.c), a.e + b.e)

DecQuotient(d, e) ==
    IF d.r = 0 THEN DecRound(d.q, e) ELSE DecRound(<<1>> \o d.q, e - 1)

\* a / Decimal(n) for an integer n > 0: the quotient to one digit more than
\* the precision, a digit 1 appended when the division leaves a remainder.
DecDiv(a, n) ==
    LET need == DecimalPrec + 1 + Len(NatDigits(n)) - Len(a.c)
        s    == IF need > 0 THEN need ELSE 0
    IN  DecQuotient(NatDivSmall(NatShift(a.c, s), n), a.e - s)

\* decimal.Decimal(0.30) and decimal.Decimal(0.70): the binary doubles nearest
\* to 0.30 and 0.70, converted exactly.
common_charge_ratio ==
    [c |-> <<5,7,8,6,9,7,1,9,0,9,1,3,3,8,6,3,6,7,5,9,5,4,3,4,8,4,7,3,5,7,9,6,7,
             7,9,8,8,8,9,9,9,9,9,9,9,9,9,9,9,9,9,9,9,2>>,
     e |-> -54]

usage_charge_ratio ==
    [c |-> <<5,7,8,1,7,6,3,6,7,2,3,3,7,4,5,0,3,8,3,8,3,7,3,9,9,4,1,0,9,7,0,1,9,
             5,5,5,9,9,9,9,9,9,9,9,9,9,9,9,9,9,9,6>>,
     e |-> -52]

(***************************************************************************)
(* Bounds of the model.                                                    *)
(***************************************************************************)

\* A billing row costs 1..MaxCost.
MaxCost == 2

\* days_per_query is 1..MaxDays.
MaxDays == 1

\* The scraper triggers update at most MaxTriggers times after construction.
MaxTriggers == 26

\* read_next_dataset is called at most MaxAdvances times.
MaxAdvances == 2

\* A caller calls read_all itself at most MaxDirectReads times.
MaxDirectReads == 1

HoursPerDay == 24

(***************************************************************************)
(* The collaborators' data: inventory objects, metric rows, billing rows.  *)
(***************************************************************************)

\* The (environment, cluster, cluster name) a billing row can be about.
Sites ==
    { [env |-> "env-1", cid |-> "lkc-1", cname |-> "conn-1"],
      [env |-> "env-2", cid |-> "lkc-2", cname |-> "conn-2"],
      [env |-> "env-3", cid |-> "lkc-3", cname |-> "conn-3"],
      [env |-> "env-4", cid |-> "lkc-4", cname |-> "conn-4"] }

\* cc_api_keys.find_sa_count_for_clusters(cluster_id): the service accounts
\* that hold an API key of the cluster, in the order of the returned dict.
find_sa_count_for_clusters(cluster_id) ==
    CASE cluster_id = "lkc-1" -> <<"sa-1", "sa-2", "sa-3">>
      [] cluster_id = "lkc-2" -> <<"sa-1">>
      [] OTHER -> <<>>

\* metrics_dataset.get_dataset_for_time_slice(time_slice): the same principals
\* are active every hour.
MetricsFor(time_slice) ==
    << [ts |-> time_slice, cluster_id |-> "lkc-1", principal_id |-> "sa-1",
        request_bytes |-> 1, response_bytes |-> 2],
       [ts |-> time_slice, cluster_id |-> "lkc-1", principal_id |-> "sa-2",
        request_bytes |-> 2, response_bytes |-> 0],
       [ts |-> time_slice, cluster_id |-> "lkc-3", principal_id |-> "sa-3",
        request_bytes |-> 0, response_bytes |-> 0] >>

\* cc_connectors.connectors
Connectors ==
    { [owner_id |-> "sa-1", cluster_id |-> "lkc-1", env_id |-> "env-1",
       connector_name |-> "conn-1"] }

\* cc_clusters.cluster
Clusters ==
    { [cluster_id |-> "lkc-1", env_id |-> "env-1"],
      [cluster_id |-> "lkc-2", env_id |-> "env-2"] }

\* cc_ksqldb_clusters.ksqldb_clusters
KsqlClusters ==
    { [cluster_id |-> "lkc-1", owner_id |-> "sa-2"] }

Catalogue ==
    { "KafkaBase", "KafkaNetworkRead", "KafkaNetworkWrite", "KafkaNumCKUs",
      "KafkaPartition", "KafkaStorage", "EventLogRead", "ConnectCapacity",
      "ConnectNumTasks", "ConnectThroughput", "ClusterLinkingPerLink",
      "ClusterLinkingRead", "ClusterLinkingWrite", "GovernanceBase",
      "SchemaRegistry", "KSQLNumCSUs" }

\* A product type the billing API knows and compute_output does not.
UncataloguedTypes == { "SupportCloudBasic" }

\* The elements of a set as a sequence, in some order.
RECURSIVE SeqOfSet(_)
SeqOfSet(S) ==
    IF S = {} THEN <<>>
    ELSE LET x == CHOOSE y \in S : TRUE IN <<x>> \o SeqOfSet(S \ {x})

(***************************************************************************)
(* The ledger and __add_cost_to_chargeback_dataset.                        *)
(***************************************************************************)

\* A contribution: the arguments of one call of
\* __add_cost_to_chargeback_dataset.
Contribution(principal, time_slice, product_type_name, usage, shared) ==
    [principal |-> principal, time_slice |-> time_slice,
     product_type_name |-> product_type_name,
     additional_usage_cost |-> usage, additional_shared_cost |-> shared]

\* detailed_split.get(product_type_name, Decimal(0))
SplitGet(detailed_split, product_type_name) ==
    IF product_type_name \in DOMAIN detailed_split
    THEN detailed_split[product_type_name]
    ELSE DecZero

\* Fault: the value stored for an existing key is made of the contribution
\* alone.
OverwrittenEntry(old, m) ==
    [usage |-> m.additional_usage_cost,
     shared |-> m.additional_shared_cost,
     detailed_split |->
         [t \in {m.product_type_name} |->
             DecAdd(m.additional_shared_cost, m.additional_usage_cost)]]

\* The value stored for an existing key: (u + usage, s + shared, split) with
\* split[type] = split.get(type, 0) + shared + usage.
MergedEntry(old, m) ==
    [usage |-> DecAdd(old.usage, m.additional_usage_cost),
     shared |-> DecAdd(old.shared, m.additional_shared_cost),
     detailed_split |->
         [t \in DOMAIN old.detailed_split \cup {m.product_type_name} |->
             IF t = m.product_type_name
             THEN DecAdd(DecAdd(SplitGet(old.detailed_split, t),
                                m.additional_shared_cost),
                         m.additional_usage_cost)
             ELSE old.detailed_split[t]]]

\* The value stored for a new key.
FreshEntry(m) ==
    [usage |-> m.additional_usage_cost,
     shared |-> m.additional_shared_cost,
     detailed_split |->
         [t \in {m.product_type_name} |->
             DecAdd(m.additional_shared_cost, m.additional_usage_cost)]]

add_cost_to_chargeback_dataset(dataset, m) ==
    LET key == <<m.principal, m.time_slice>>
    IN  IF key \in DOMAIN dataset
        THEN [dataset EXCEPT ![key] = MergedEntry(dataset[key], m)]
        ELSE [k \in DOMAIN dataset \cup {key} |->
                 IF k = key THEN FreshEntry(m) ELSE dataset[k]]

RECURSIVE AddAll(_, _)
AddAll(dataset, merges) ==
    IF merges = <<>> THEN dataset
    ELSE AddAll(add_cost_to_chargeback_dataset(dataset, Head(merges)),
                Tail(merges))

(***************************************************************************)
(* The rules of compute_output, one per product type.  A rule gives the    *)
(* contributions it merges, in order, the exception that ends it ("none"   *)
(* when it returns), and the kind of message it prints.                    *)
(***************************************************************************)

Outcome(merges, exc, printed) ==
    [merges |-> merges, exc |-> exc, printed |-> printed]

SharedTo(principal, row, amount) ==
    Contribution(principal, row.ts, row.ptype, DecZero, amount)

UsageTo(principal, row, amount) ==
    Contribution(principal, row.ts, row.ptype, amount, DecZero)

\* The fallback branch of a rule: the whole cost, shared, to one pseudo
\* principal, after a printed message.
Fallback(principal, row) ==
    Outcome(<<SharedTo(principal, row, DecFromInt(row.cost))>>, "none",
            "fallback")

\* Decimal(row_cost) / Decimal(splitter) to each of the recipients, shared.
EqualShared(recipients, row, amount) ==
    [i \in 1..Len(recipients) |->
        SharedTo(recipients[i], row, DecDiv(amount, Len(recipients)))]

\* Decimal(row_cost) / Decimal(splitter) to each of the recipients, usage.
EqualUsage(recipients, row, amount) ==
    [i \in 1..Len(recipients) |->
        UsageTo(recipients[i], row, DecDiv(amount, Len(recipients)))]

\* The metric rows of the hour and the cluster.
MetricRowsOf(row) ==
    LET Match(m) == m.ts = row.ts /\ m.cluster_id = row.cid
    IN  SelectSeq(MetricsFor(row.ts), Match)

ProducedRowsOf(row) ==
    LET Positive(m) == m.request_bytes > 0
    IN  SelectSeq(MetricRowsOf(row), Positive)

ConsumedRowsOf(row) ==
    LET Positive(m) == m.response_bytes > 0
    IN  SelectSeq(MetricRowsOf(row), Positive)

RECURSIVE SumRequestBytes(_)
SumRequestBytes(rows) ==
    IF rows = <<>> THEN 0
    ELSE Head(rows).request_bytes + SumRequestBytes(Tail(rows))

\* self.chargeback_dataset is a dict: the attribute
\* _CCloudChargebackHandler__add_cost_to_chargeback_dataset looked up on it
\* does not exist, and the call raises before it merges anything.
DictHasNoSuchMethod == Outcome(<<>>, "AttributeError", "none")

KafkaBaseRule(row) ==
    LET sa_count == find_sa_count_for_clusters(row.cid)
    IN  IF Len(sa_count) > 0 THEN DictHasNoSuchMethod
        ELSE Fallback(row.cid, row)

\* With metric rows, line 259 builds a Decimal from a pandas Series, which
\* raises; the merge of line 263 is an attribute lookup on the dict.
KafkaNetworkReadRule(row) ==
    IF ConsumedRowsOf(row) # <<>> THEN Outcome(<<>>, "TypeError", "none")
    ELSE Fallback(row.cid, row)

KafkaNetworkWriteRule(row) ==
    LET metric_rows == ProducedRowsOf(row)
        agg_value   == SumRequestBytes(metric_rows)
    IN  IF metric_rows # <<>>
        THEN Outcome([i \in 1..Len(metric_rows) |->
                         UsageTo(metric_rows[i].principal_id, row,
                                 DecMul(DecFromInt(row.cost),
                                        DecDiv(DecFromInt(
                                                   metric_rows[i].request_bytes),
                                               agg_value)))],
                     "none", "none")
        ELSE Fallback(row.cid, row)

\* The common charge of a KafkaNumCKUs row: merged before the usage charge
\* is looked at.
NumCKUsCommon(row) ==
    LET sa_count == find_sa_count_for_clusters(row.cid)
        amount   == DecMul(DecFromInt(row.cost), common_charge_ratio)
    IN  IF Len(sa_count) > 0 THEN EqualShared(sa_count, row, amount)
        ELSE <<SharedTo(row.cid, row, amount)>>

\* The usage charge of a KafkaNumCKUs row when the hour has no metric row
\* for the cluster.
NumCKUsIdle(row) ==
    LET sa_count == find_sa_count_for_clusters(row.cid)
        amount   == DecMul(DecFromInt(row.cost), usage_charge_ratio)
    IN  IF Len(sa_count) > 0 THEN EqualShared(sa_count, row, amount)
        ELSE <<SharedTo(row.cid, row, amount)>>

\* With metric rows, line 374 calls values() on the list query_dataset,
\* which raises after the common charge is merged.
KafkaNumCKUsRule(row) ==
    IF MetricRowsOf(row) # <<>>
    THEN Outcome(NumCKUsCommon(row), "AttributeError",
                 IF Len(find_sa_count_for_clusters(row.cid)) > 0
                 THEN "none" ELSE "fallback")
    ELSE Outcome(NumCKUsCommon(row) \o NumCKUsIdle(row), "none", "fallback")

KafkaPartitionStorageRule(row) ==
    LET sa_count == find_sa_count_for_clusters(row.cid)
    IN  IF Len(sa_count) > 0
        THEN Outcome(EqualShared(sa_count, row, DecFromInt(row.cost)),
                     "none", "none")
        ELSE Fallback(row.cid, row)

\* Line 449 reads the name objects_dataset, which is neither a local nor a
\* global of the module.
EventLogReadRule(row) == Outcome(<<>>, "NameError", "none")

ConnectorOwnersOnCluster(row) ==
    { y.owner_id : y \in { x \in Connectors : x.cluster_id = row.cid } }

ConnectCapacityRule(row) ==
    IF Cardinality(ConnectorOwnersOnCluster(row)) > 0
    THEN DictHasNoSuchMethod
    ELSE Fallback(row.cid, row)

ConnectorOwners(row) ==
    { y.owner_id : y \in { x \in Connectors :
                              x.env_id = row.env
                                  /\ x.connector_name = row.cname } }

ConnectTasksThroughputRule(row) ==
    LET active_identities == SeqOfSet(ConnectorOwners(row))
    IN  IF Len(active_identities) > 0
        THEN Outcome(EqualUsage(active_identities, row,
                                DecFromInt(row.cost)), "none", "none")
        ELSE Fallback(row.cid, row)

ClusterLinkingRule(row) ==
    Outcome(<<SharedTo(row.cid, row, DecFromInt(row.cost))>>, "none", "none")

ClustersOfEnvironment(row) ==
    { y.cluster_id : y \in { x \in Clusters : x.env_id = row.env } }

GovernanceRule(row) ==
    IF Cardinality(ClustersOfEnvironment(row)) > 0
    THEN DictHasNoSuchMethod
    ELSE Fallback(row.env, row)

KsqlOwners(row) ==
    { y.owner_id : y \in { x \in KsqlClusters : x.cluster_id = row.cid } }

KSQLNumCSUsRule(row) ==
    LET active_identities == SeqOfSet(KsqlOwners(row))
    IN  IF Len(active_identities) > 0
        THEN Outcome(EqualUsage(active_identities, row,
                                DecFromInt(row.cost)), "none", "none")
        ELSE Fallback(row.cid, row)

\* Fault: a row of unknown type is charged to its cluster.
UnknownToCluster(row) == Fallback(row.cid, row)

\* The else branch: three prints, no merge.
UnknownTypeRule(row) == Outcome(<<>>, "none", "unknown")

\* The if/elif chain of compute_output.
Rule(row) ==
    CASE row.ptype = "KafkaBase" -> KafkaBaseRule(row)
      [] row.ptype = "KafkaNetworkRead" -> KafkaNetworkReadRule(row)
      [] row.ptype = "KafkaNetworkWrite" -> KafkaNetworkWriteRule(row)
      [] row.ptype = "KafkaNumCKUs" -> KafkaNumCKUsRule(row)
      [] row.ptype \in {"KafkaPartition", "KafkaStorage"} ->
             KafkaPartitionStorageRule(row)
      [] row.ptype = "EventLogRead" -> EventLogReadRule(row)
      [] row.ptype = "ConnectCapacity" -> ConnectCapacityRule(row)
      [] row.ptype \in {"ConnectNumTasks", "ConnectThroughput"} ->
             ConnectTasksThroughputRule(row)
      [] row.ptype \in {"ClusterLinkingPerLink", "ClusterLinkingRead",
                        "ClusterLinkingWrite"} -> ClusterLinkingRule(row)
      [] row.ptype \in {"GovernanceBase", "SchemaRegistry"} ->
             GovernanceRule(row)
      [] row.ptype = "KSQLNumCSUs" -> KSQLNumCSUsRule(row)
      [] OTHER -> UnknownTypeRule(row)

(***************************************************************************)
(* compute_output and read_all.  A run is the ledger so far, the exception *)
(* that ended it ("none" while it goes on) and the journal: for each       *)
(* billing row processed, the row and what its rule did.                   *)
(***************************************************************************)

Run(dataset, exc, journal) ==
    [dataset |-> dataset, exc |-> exc, journal |-> journal]

\* The run after the rule of row did o.
Processed(run, row, o) ==
    Run(AddAll(run.dataset, o.merges), o.exc,
        Append(run.journal,
               [row |-> row, merges |-> o.merges, exc |-> o.exc,
                printed |-> o.printed]))

\* One iteration of the loop over the billing rows of the hour.
ProcessRow(run, row) == Processed(run, row, Rule(row))

\* The loop over billing rows: it ends at the first exception.
RECURSIVE ProcessRows(_, _)
ProcessRows(run, rows) ==
    IF rows = <<>> \/ run.exc # "none" THEN run
    ELSE ProcessRows(ProcessRow(run, Head(rows)), Tail(rows))

\* billing_dataset.get_dataset_for_time_slice(time_slice): the rows of the
\* hour, in the order of the dataset.
BillingFor(billing_data, time_slice) ==
    LET AtHour(r) == r.ts = time_slice IN SelectSeq(billing_data, AtHour)

compute_output(run, billing_data, time_slice) ==
    ProcessRows(run, BillingFor(billing_data, time_slice))

\* _generate_date_range_per_row(start_date, end_date): the hours of
\* [start_date, end_date) in increasing order.  An hour without billing row
\* runs no iteration, so only the hours that have one are listed.
RECURSIVE HoursFrom(_, _, _)
HoursFrom(billing_data, start_date, end_date) ==
    LET later == { billing_data[i].ts : i \in DOMAIN billing_data }
                     \cap start_date..(end_date - 1)
    IN  IF later = {} THEN <<>>
        ELSE LET h == CHOOSE x \in later : \A y \in later : x <= y
             IN  <<h>> \o HoursFrom(billing_data, h + 1, end_date)

RECURSIVE ComputeHours(_, _, _)
ComputeHours(run, billing_data, hours) ==
    IF hours = <<>> \/ run.exc # "none" THEN run
    ELSE ComputeHours(compute_output(run, billing_data, Head(hours)),
                      billing_data, Tail(hours))

read_all(dataset, billing_data, start_date, end_date) ==
    ComputeHours(Run(dataset, "none", <<>>), billing_data,
                 HoursFrom(billing_data, start_date, end_date))

\* Fault: the entries of the hour start_date are deleted too.
CleanupThroughStart(dataset, start_date) ==
    [k \in { x \in DOMAIN dataset : ~(x[2] <= start_date) } |-> dataset[k]]

\* Fault: nothing is deleted.
KeepEverything(dataset, start_date) == dataset

\* cleanup_old_data: the entries of the copy whose hour is before start_date
\* are deleted.
cleanup_old_data(dataset, start_date) ==
    [k \in { x \in DOMAIN dataset : ~(x[2] < start_date) } |-> dataset[k]]

(***************************************************************************)
(* The billing datasets the provider can hold.                             *)
(***************************************************************************)

SiteOf(cid) == CHOOSE x \in Sites : x.cid = cid

BillingRow(ts, cid, ptype, cost) ==
    [ts |-> ts, env |-> SiteOf(cid).env, cid |-> cid,
     cname |-> SiteOf(cid).cname, ptype |-> ptype, cost |-> cost]

\* Every product type on every cluster, in the first hour.
CatalogueRows ==
    { BillingRow(0, x.cid, t, c) :
          x \in Sites, t \in Catalogue \cup UncataloguedTypes, c \in 1..MaxCost }

\* The hours of the timeline datasets: two in the first day, one in the next.
TimelineHours == { 0, 1, HoursPerDay }

\* The (cluster, product type) of the timeline datasets: two types split
\* among the three key holders of lkc-1, a type whose rule raises on lkc-1
\* and falls back on lkc-3, and a type out of the catalogue.
TimelineProducts ==
    { <<"lkc-1", "KafkaPartition">>, <<"lkc-1", "KafkaStorage">>,
      <<"lkc-1", "KafkaBase">>, <<"lkc-3", "KafkaBase">>,
      <<"lkc-1", "SupportCloudBasic">> }

TimelineRows ==
    { BillingRow(h, p[1], p[2], c) :
          h \in TimelineHours, p \in TimelineProducts, c \in 1..MaxCost }

\* Two rows of a dataset differ in their index.
SameIndex(r1, r2) == r1.ts = r2.ts /\ r1.cid = r2.cid /\ r1.ptype = r2.ptype

\* The datasets of none, one or two of the rows.
DatasetsOver(rows) ==
    { <<>> } \cup { <<r>> : r \in rows }
        \cup { d \in rows \X rows : ~SameIndex(d[1], d[2]) }

\* The start_date a handler is constructed with: a midnight, and an hour of
\* the same day.
StartInputs == { 0, 3 }

(***************************************************************************)
(* The state.                                                              *)
(***************************************************************************)

VARIABLES
    phase,                \* "new": not constructed; "ready"; "failed":
                          \* __post_init__ raised
    billing_dataset,      \* the rows the billing provider holds
    start_date,           \* the start of the current window
    days_per_query,
    chargeback_dataset,   \* (principal, hour) -> usage, shared, detailed_split
    curr_export_datetime, \* the cursor
    exposed,              \* the hours given to notifier.set_timestamp
    pushed,               \* the set(...) calls of the last update
    raised,               \* the exception of the last operation, or "none"
    journal,              \* the rows processed by the last read_all
    evicted,              \* the keys deleted by the last cleanup_old_data
    last_op,              \* the last operation called
    advances,             \* the number of read_next_dataset calls
    direct_reads          \* the number of read_all calls of a caller

vars ==
    <<phase, billing_dataset, start_date, days_per_query, chargeback_dataset,
      curr_export_datetime, exposed, pushed, raised, journal, evicted,
      last_op, advances, direct_reads>>

\* curr_export_datetime is a field without default: it has no value before
\* line 68.
Unset == "unset"

EmptyDataset == [k \in {} |-> DecZero]

InitOver(datasets, starts) ==
    /\ phase = "new"
    /\ billing_dataset \in datasets
    /\ start_date \in starts
    /\ days_per_query \in 1..MaxDays
    /\ chargeback_dataset = EmptyDataset
    /\ curr_export_datetime = Unset
    /\ exposed = <<>>
    /\ pushed = {}
    /\ raised = "none"
    /\ journal = <<>>
    /\ evicted = {}
    /\ last_op = "none"
    /\ advances = 0
    /\ direct_reads = 0

Init == InitOver(DatasetsOver(TimelineRows), StartInputs)

InitCatalogue == InitOver(DatasetsOver(CatalogueRows), {0})

(***************************************************************************)
(* The operations.                                                         *)
(***************************************************************************)

\* Line 63, after its docstring: midnight UTC of the day of d.
MidnightUTC(d) == (d \div HoursPerDay) * HoursPerDay

\* datetime.timedelta(days=n), in hours.
Days(n) == n * HoursPerDay

\* Fault: the cursor starts on the window start.
CursorAtWindowStart(window_start) == window_start

\* Line 68: the cursor before the first update.
CursorBeforeFirstUpdate(window_start) == window_start - 1

\* __generate_next_timestamp(curr_date)
generate_next_timestamp(curr_date) == curr_date + 1

\* __get_dataset_for_exact_timestamp: the keys of the entries of the hour.
get_dataset_for_exact_timestamp(dataset, time_slice) ==
    { k \in DOMAIN dataset : k[2] = time_slice }

SetCall(principal, cost_type, value) ==
    [principal |-> principal, cost_type |-> cost_type, value |-> value]

\* expose_prometheus_metrics(ts_filter): the labels(...).set(...) calls.
expose_prometheus_metrics(dataset, ts_filter) ==
    UNION { { SetCall(k[1], "UsageCost", dataset[k].usage),
              SetCall(k[1], "SharedCost", dataset[k].shared) }
                \cup { SetCall(k[1], t, dataset[k].detailed_split[t]) :
                           t \in DOMAIN dataset[k].detailed_split } :
            k \in get_dataset_for_exact_timestamp(dataset, ts_filter) }

\* Fault: update leaves the cursor where it was.
CursorKept(curr_date, next_ts) == curr_date

\* Line 99: the cursor becomes the timestamp exposed.
CursorAfterUpdate(curr_date, next_ts) == next_ts

\* Fault: the slice pushed is the one of the hour of the cursor, not of the
\* next timestamp.
UpdateExposingCursorHour(dataset, curr_date) ==
    LET next_ts == generate_next_timestamp(curr_date)
    IN  /\ exposed' = Append(exposed, next_ts)
        /\ pushed' = expose_prometheus_metrics(dataset, curr_date)
        /\ curr_export_datetime' = CursorAfterUpdate(curr_date, next_ts)

\* Fault: a trigger for an hour without entries returns before line 99.
UpdateSkippingEmptyHours(dataset, curr_date) ==
    LET next_ts == generate_next_timestamp(curr_date)
    IN  /\ exposed' = Append(exposed, next_ts)
        /\ pushed' = expose_prometheus_metrics(dataset, next_ts)
        /\ curr_export_datetime' =
               IF get_dataset_for_exact_timestamp(dataset, next_ts) = {}
               THEN curr_date
               ELSE CursorAfterUpdate(curr_date, next_ts)

\* update(notifier), on the ledger dataset and the cursor curr_date: the next
\* timestamp goes to the notifier, its slice to the sink, and the cursor
\* moves.
UpdateFrom(dataset, curr_date) ==
    LET next_ts == generate_next_timestamp(curr_date)
    IN  /\ exposed' = Append(exposed, next_ts)
        /\ pushed' = expose_prometheus_metrics(dataset, next_ts)
        /\ curr_export_datetime' = CursorAfterUpdate(curr_date, next_ts)

\* __post_init__, when read_all returns: lines 67-69, the first update
\* included.
Constructed(run, window_start) ==
    /\ phase' = "ready"
    /\ UpdateFrom(run.dataset, CursorBeforeFirstUpdate(window_start))

\* __post_init__, when read_all raises: no handler comes out of it.
NotConstructed ==
    /\ phase' = "failed"
    /\ UNCHANGED <<exposed, pushed, curr_export_datetime>>

\* The ledger, the exception and the journal a run of read_all leaves.
Computed(run) ==
    /\ chargeback_dataset' = run.dataset
    /\ raised' = run.exc
    /\ journal' = run.journal

\* Lines 66-69.
PostInitFrom(run, window_start) ==
    /\ Computed(run)
    /\ IF run.exc = "none" THEN Constructed(run, window_start)
       ELSE NotConstructed

PostInit ==
    /\ phase = "new"
    /\ start_date' = MidnightUTC(start_date)
    /\ PostInitFrom(read_all(chargeback_dataset, billing_dataset,
                             MidnightUTC(start_date),
                             MidnightUTC(start_date) + Days(days_per_query)),
                    MidnightUTC(start_date))
    /\ last_op' = "__post_init__"
    /\ UNCHANGED <<billing_dataset, days_per_query, evicted, advances,
                   direct_reads>>

\* Fault: a trigger deletes from the ledger the entries it has pushed.
UpdateDeletingExposed ==
    /\ phase = "ready"
    /\ Len(exposed) <= MaxTriggers
    /\ UpdateFrom(chargeback_dataset, curr_export_datetime)
    /\ chargeback_dataset' =
           [k \in { x \in DOMAIN chargeback_dataset :
                        x[2] # generate_next_timestamp(curr_export_datetime) }
               |-> chargeback_dataset[k]]
    /\ raised' = "none"
    /\ last_op' = "update"
    /\ UNCHANGED <<phase, billing_dataset, start_date, days_per_query,
                   journal, evicted, advances, direct_reads>>

\* update(notifier), called by the notifier.
Update ==
    /\ phase = "ready"
    /\ Len(exposed) <= MaxTriggers
    /\ UpdateFrom(chargeback_dataset, curr_export_datetime)
    /\ raised' = "none"
    /\ last_op' = "update"
    /\ UNCHANGED <<phase, billing_dataset, start_date, days_per_query,
                   chargeback_dataset, journal, evicted, advances,
                   direct_reads>>

\* Lines 122-124, kept being the ledger cleanup_old_data leaves.
ReadNextFrom(kept, new_start) ==
    /\ evicted' = DOMAIN chargeback_dataset \ DOMAIN kept
    /\ Computed(read_all(kept, billing_dataset, new_start,
                         new_start + Days(days_per_query)))

ReadNextDataset ==
    /\ phase = "ready"
    /\ advances < MaxAdvances
    /\ start_date' = start_date + Days(days_per_query)
    /\ ReadNextFrom(cleanup_old_data(chargeback_dataset,
                                     start_date + Days(days_per_query)),
                    start_date + Days(days_per_query))
    /\ advances' = advances + 1
    /\ last_op' = "read_next_dataset"
    /\ UNCHANGED <<phase, billing_dataset, days_per_query,
                   curr_export_datetime, exposed, pushed, direct_reads>>

\* A caller calls read_all on one of the windows the handler goes through.
ReadAll ==
    /\ phase = "ready"
    /\ direct_reads < MaxDirectReads
    /\ \E n \in 0..MaxAdvances :
          Computed(read_all(chargeback_dataset, billing_dataset,
                            Days(n * days_per_query),
                            Days(n * days_per_query) + Days(days_per_query)))
    /\ direct_reads' = direct_reads + 1
    /\ last_op' = "read_all"
    /\ UNCHANGED <<phase, billing_dataset, start_date, days_per_query,
                   curr_export_datetime, exposed, pushed, evicted, advances>>

Cleaned(kept) ==
    /\ evicted' = DOMAIN chargeback_dataset \ DOMAIN kept
    /\ chargeback_dataset' = kept

\* A caller calls cleanup_old_data.
CleanupOldData ==
    /\ phase = "ready"
    /\ Cleaned(cleanup_old_data(chargeback_dataset, start_date))
    /\ raised' = "none"
    /\ last_op' = "cleanup_old_data"
    /\ UNCHANGED <<phase, billing_dataset, start_date, days_per_query,
                   curr_export_datetime, exposed, pushed, journal, advances,
                   direct_reads>>

\* The handler under its scraper: construction, triggers, window advances.
Next ==
    \/ PostInit
    \/ Update
    \/ ReadNextDataset

Spec == Init /\ [][Next]_vars

\* The handler under an owner that also calls read_all and cleanup_old_data
\* itself.  The triggers, which leave the ledger as it is, are left out.
NextCaller ==
    \/ PostInit
    \/ ReadNextDataset
    \/ ReadAll
    \/ CleanupOldData

SpecCaller == Init /\ [][NextCaller]_vars

\* The construction alone, over the datasets of every product type.
NextCatalogue == PostInit

SpecCatalogue == InitCatalogue /\ [][NextCatalogue]_vars

(***************************************************************************)
(* Properties.                                                             *)
(***************************************************************************)

\* The exact sum of the amounts (usage + shared) of a sequence of
\* contributions.
RECURSIVE ExactSum(_)
ExactSum(merges) ==
    IF merges = <<>> THEN DecZero
    ELSE DecAddExact(DecAddExact(Head(merges).additional_usage_cost,
                                 Head(merges).additional_shared_cost),
                     ExactSum(Tail(merges)))

\* The journal entries of the rows whose product type is in the catalogue.
CatalogueEntries ==
    { i \in DOMAIN journal : journal[i].row.ptype \in Catalogue }

\* C1: conservation.  For every processed billing row whose product type is
\* in the catalogue, the amounts (usage + shared) of the contributions that
\* compute_output merged for the row sum exactly to the cost of the row.
C1_Conservation ==
    \A i \in CatalogueEntries :
        ExactSum(journal[i].merges) = DecFromInt(journal[i].row.cost)

\* C1: a row was processed without exception, all its contributions were
\* merged, and their exact sum is not the cost of the row.
C1_RoundedShares ==
    \E i \in CatalogueEntries :
        /\ journal[i].exc = "none"
        /\ Len(journal[i].merges) > 1
        /\ ExactSum(journal[i].merges) # DecFromInt(journal[i].row.cost)

\* sum(detailed_split.values()), as Python evaluates it: from 0, each value
\* added in the context precision.
RECURSIVE SumValues(_, _)
SumValues(detailed_split, types) ==
    IF types = {} THEN DecZero
    ELSE LET t == CHOOSE x \in types : TRUE
         IN  DecAdd(SumValues(detailed_split, types \ {t}), detailed_split[t])

\* usage_cost + shared_cost == sum(detailed_split.values()), as Python
\* evaluates it.
Balanced(entry) ==
    DecAdd(entry.usage, entry.shared)
        = SumValues(entry.detailed_split, DOMAIN entry.detailed_split)

\* C2: ledger invariant.  In every reachable state every ledger entry
\* satisfies usage_cost + shared_cost == sum(detailed_split.values()).
C2_LedgerInvariant ==
    \A k \in DOMAIN chargeback_dataset : Balanced(chargeback_dataset[k])

\* C2: a handler was constructed without exception and holds an entry, made
\* of three merges, that is out of balance.
C2_EntryOutOfBalance ==
    /\ phase = "ready"
    /\ raised = "none"
    /\ \E k \in DOMAIN chargeback_dataset :
          /\ ~Balanced(chargeback_dataset[k])
          /\ Cardinality(DOMAIN chargeback_dataset[k].detailed_split) = 2

\* No hour occurs twice in the sequence of exposed hours.
NoHourTwice ==
    \A i, j \in DOMAIN exposed : exposed[i] = exposed[j] => i = j

\* A step of a constructed handler that exposes an hour moves the cursor one
\* hour forward, to the hour exposed.
TriggerStepsOneHour ==
    (phase = "ready" /\ exposed' # exposed) =>
        /\ curr_export_datetime' = curr_export_datetime + 1
        /\ exposed' = Append(exposed, curr_export_datetime')

CleanupStep ==
    last_op' = "cleanup_old_data" =>
        /\ start_date' = start_date
        /\ \A k \in DOMAIN chargeback_dataset' : k[2] >= start_date
        /\ \A k \in DOMAIN chargeback_dataset :
              k[2] >= start_date =>
                  /\ k \in DOMAIN chargeback_dataset'
                  /\ chargeback_dataset'[k] = chargeback_dataset[k]
        /\ evicted' = { k \in DOMAIN chargeback_dataset : k[2] < start_date }

\* C4: eviction.  After cleanup_old_data, whose cutoff is start_date, no
\* ledger entry with hour < start_date remains, and every entry with hour >=
\* start_date is still there with usage_cost, shared_cost and detailed_split
\* unchanged.
C4_Eviction == [][CleanupStep]_vars

\* C4: a call of cleanup_old_data deleted entries and kept others.
C4_SomeEvictedSomeKept ==
    /\ last_op = "cleanup_old_data"
    /\ evicted # {}
    /\ DOMAIN chargeback_dataset # {}

\* The start of the first window: the current one, less the advances.
FirstWindowStart == start_date - advances * Days(days_per_query)

RECURSIVE SumBytes(_)
SumBytes(rows) ==
    IF rows = <<>> THEN 0
    ELSE Head(rows).request_bytes + Head(rows).response_bytes
             + SumBytes(Tail(rows))

\* The rule of the row finds no recipient: no key holder, no byte produced
\* or consumed, no connector owner, no cluster in the environment, no ksqlDB
\* owner.
NoRecipient(row) ==
    CASE row.ptype \in {"KafkaBase", "KafkaPartition", "KafkaStorage"} ->
             find_sa_count_for_clusters(row.cid) = <<>>
      [] row.ptype = "KafkaNetworkRead" -> ConsumedRowsOf(row) = <<>>
      [] row.ptype = "KafkaNetworkWrite" -> ProducedRowsOf(row) = <<>>
      [] row.ptype = "KafkaNumCKUs" ->
             /\ find_sa_count_for_clusters(row.cid) = <<>>
             /\ SumBytes(MetricRowsOf(row)) = 0
      [] row.ptype = "ConnectCapacity" -> ConnectorOwnersOnCluster(row) = {}
      [] row.ptype \in {"ConnectNumTasks", "ConnectThroughput"} ->
             ConnectorOwners(row) = {}
      [] row.ptype \in {"GovernanceBase", "SchemaRegistry"} ->
             ClustersOfEnvironment(row) = {}
      [] row.ptype = "KSQLNumCSUs" -> KsqlOwners(row) = {}
      [] OTHER -> FALSE

\* The pseudo principal the rule of the row names as its fallback.
FallbackPrincipal(row) ==
    IF row.ptype \in {"GovernanceBase", "SchemaRegistry"} THEN row.env
    ELSE row.cid

\* The whole cost of the row went to its fallback principal, and the rule
\* returned.
RoutedToFallback(entry) ==
    /\ entry.exc = "none"
    /\ \A i \in DOMAIN entry.merges :
          entry.merges[i].principal = FallbackPrincipal(entry.row)
    /\ ExactSum(entry.merges) = DecFromInt(entry.row.cost)

\* C6: a rule that finds no recipient, or a zero total of the measurement it
\* divides by, neither divides by zero nor loses the cost: the cost goes to
\* the fallback pseudo principal of the rule.
C6_NoRecipientFallsBack ==
    \A i \in CatalogueEntries :
        NoRecipient(journal[i].row) => RoutedToFallback(journal[i])

\* C6: a KafkaNumCKUs row for a cluster without key holder, whose metric
\* rows count no byte, ended in an exception after the common charge.
C6_UsageChargeLost ==
    \E i \in DOMAIN journal :
        /\ journal[i].row.ptype = "KafkaNumCKUs"
        /\ NoRecipient(journal[i].row)
        /\ MetricRowsOf(journal[i].row) # <<>>
        /\ journal[i].exc # "none"
        /\ Len(journal[i].merges) = 1

\* The journal entries of the KafkaBase rows.
KafkaBaseEntries ==
    { i \in DOMAIN journal : journal[i].row.ptype = "KafkaBase" }

\* One contribution per key holder, of shared cost C/N and no usage cost;
\* without key holder one contribution, of shared cost C, to the cluster id.
KafkaBaseExpected(row) ==
    LET sa_count == find_sa_count_for_clusters(row.cid)
    IN  IF Len(sa_count) = 0
        THEN <<SharedTo(row.cid, row, DecFromInt(row.cost))>>
        ELSE EqualShared(sa_count, row, DecFromInt(row.cost))

\* C7: KafkaBase.  A row of cost C for a cluster without key holder gives
\* exactly one contribution, of shared cost C, to the cluster id; with N > 0
\* key holders it gives exactly N contributions, one per holder, of shared
\* cost C/N and no usage cost.
C7_KafkaBaseSplit ==
    \A i \in KafkaBaseEntries :
        journal[i].merges = KafkaBaseExpected(journal[i].row)

\* C7: a KafkaBase row for a cluster with key holders raised, and nothing
\* was merged for it.
C7_KafkaBaseRaised ==
    \E i \in KafkaBaseEntries :
        /\ Len(find_sa_count_for_clusters(journal[i].row.cid)) > 0
        /\ journal[i].exc = "AttributeError"
        /\ journal[i].merges = <<>>

\* The journal entries of the KafkaNumCKUs rows for a cluster with key
\* holders and metric rows.
NumCKUsActiveEntries ==
    { i \in DOMAIN journal :
          /\ journal[i].row.ptype = "KafkaNumCKUs"
          /\ Len(find_sa_count_for_clusters(journal[i].row.cid)) > 0
          /\ MetricRowsOf(journal[i].row) # <<>> }

\* The principals that got a contribution with a shared cost, and with a
\* usage cost.
SharedPrincipals(merges) ==
    { merges[i].principal :
          i \in { j \in DOMAIN merges :
                      merges[j].additional_shared_cost # DecZero } }

UsagePrincipals(merges) ==
    { merges[i].principal :
          i \in { j \in DOMAIN merges :
                      merges[j].additional_usage_cost # DecZero } }

\* The principals of the metric rows that count a byte.
ActivePrincipals(row) ==
    { MetricRowsOf(row)[i].principal_id :
          i \in { j \in DOMAIN MetricRowsOf(row) :
                      MetricRowsOf(row)[j].request_bytes
                          + MetricRowsOf(row)[j].response_bytes > 0 } }

\* C8: KafkaNumCKUs, two parts.  For a row of cost C, a cluster with N > 0
\* key holders and metric rows for the hour, every key holder gets a shared
\* cost (its part of 0.30 * C), every principal with bytes in a metric row
\* gets a usage cost (its part of 0.70 * C), and the contributions add up
\* to C.
C8_NumCKUsTwoParts ==
    \A i \in NumCKUsActiveEntries :
        /\ journal[i].exc = "none"
        /\ SharedPrincipals(journal[i].merges)
               = { find_sa_count_for_clusters(journal[i].row.cid)[n] :
                       n \in DOMAIN find_sa_count_for_clusters(
                                        journal[i].row.cid) }
        /\ UsagePrincipals(journal[i].merges)
               = ActivePrincipals(journal[i].row)
        /\ ExactSum(journal[i].merges) = DecFromInt(journal[i].row.cost)

\* C8: a KafkaNumCKUs row for a cluster with key holders and metric rows
\* raised after the common charge: no usage cost was merged.
C8_UsagePartRaised ==
    \E i \in NumCKUsActiveEntries :
        /\ journal[i].exc = "AttributeError"
        /\ SharedPrincipals(journal[i].merges) # {}
        /\ UsagePrincipals(journal[i].merges) = {}

\* The rows of a dataset whose product type is in the catalogue.
CatalogueRowsOf(billing_data) ==
    LET Known(r) == r.ptype \in Catalogue IN SelectSeq(billing_data, Known)

\* The journal entries of the rows whose product type is not in the
\* catalogue.
UnknownEntries ==
    { i \in DOMAIN journal : journal[i].row.ptype \notin Catalogue }

\* What the constructor computes from the dataset without its rows of
\* unknown type.
WithoutUnknownRows ==
    read_all(EmptyDataset, CatalogueRowsOf(billing_dataset), start_date,
             start_date + Days(days_per_query))

\* C9: a billing row whose product type is not in the catalogue is dropped.
\* Its rule merges nothing, raises nothing and prints the warning; the
\* ledger and the outcome of the computation are those of the dataset
\* without the row, so the other rows of the hour are processed.
C9_UnknownTypeDropped ==
    phase # "new" =>
        /\ \A i \in UnknownEntries :
              /\ journal[i].merges = <<>>
              /\ journal[i].exc = "none"
              /\ journal[i].printed = "unknown"
        /\ chargeback_dataset = WithoutUnknownRows.dataset
        /\ raised = WithoutUnknownRows.exc
        /\ SelectSeq(journal, LAMBDA x : x.row.ptype \in Catalogue)
               = WithoutUnknownRows.journal

\* C9: a row of unknown type came first, and the row after it was charged.
C9_RowAfterUnknownCharged ==
    /\ phase = "ready"
    /\ Len(journal) = 2
    /\ journal[1].row.ptype \notin Catalogue
    /\ journal[1].printed = "unknown"
    /\ journal[2].merges # <<>>
    /\ DOMAIN chargeback_dataset # {}

\* Every ledger entry is of an hour of the current window.
LedgerInsideWindow ==
    phase = "ready" =>
        \A k \in DOMAIN chargeback_dataset :
            /\ start_date <= k[2]
            /\ k[2] < start_date + Days(days_per_query)

\* A call of read_next_dataset moves the window start by days_per_query
\* days, deletes the entries before the new start, and computes the rows of
\* the new window.
AdvanceStep ==
    last_op' = "read_next_dataset" =>
        /\ start_date' = start_date + Days(days_per_query)
        /\ evicted' = { k \in DOMAIN chargeback_dataset : k[2] < start_date' }
        /\ \A i \in DOMAIN journal' :
              /\ start_date' <= journal'[i].row.ts
              /\ journal'[i].row.ts < start_date' + Days(days_per_query)
        /\ raised' = "none" =>
              Len(journal')
                  = Cardinality({ i \in DOMAIN billing_dataset :
                        /\ start_date' <= billing_dataset[i].ts
                        /\ billing_dataset[i].ts
                               < start_date' + Days(days_per_query) })

\* C10: window slide.  read_next_dataset sets start_date to start_date +
\* days_per_query, evicts the entries before the new start and computes the
\* window [start_date, start_date + days_per_query); after construction and
\* after any number of advances every ledger entry is of an hour of the
\* current window.
C10_WindowSlide == []LedgerInsideWindow /\ [][AdvanceStep]_vars

\* C10: an advance evicted the entries of the old window and computed
\* entries of the new one.
C10_OldEvictedNewComputed ==
    /\ last_op = "read_next_dataset"
    /\ evicted # {}
    /\ DOMAIN chargeback_dataset # {}
    /\ raised = "none"

(***************************************************************************)
(* C11.  read_all called a second time for the window the ledger holds.    *)
(***************************************************************************)

\* What the first read_all of the current window computes, on the empty
\* ledger.
FirstRead ==
    read_all(EmptyDataset, billing_dataset, start_date,
             start_date + Days(days_per_query))

\* The entry with every amount exactly doubled.
Doubled(entry) ==
    [usage |-> DecAddExact(entry.usage, entry.usage),
     shared |-> DecAddExact(entry.shared, entry.shared),
     detailed_split |->
         [t \in DOMAIN entry.detailed_split |->
             DecAddExact(entry.detailed_split[t], entry.detailed_split[t])]]

\* The last operation was the one direct call of read_all, and it computed
\* rows of the window the constructor had computed, nothing evicted since.
SecondReadOfWindow ==
    /\ phase = "ready"
    /\ last_op = "read_all"
    /\ advances = 0
    /\ direct_reads = 1
    /\ journal # <<>>
    /\ \A i \in DOMAIN journal :
          /\ start_date <= journal[i].row.ts
          /\ journal[i].row.ts < start_date + Days(days_per_query)

\* C11: calling read_all(start, end) twice for the same window with no
\* eviction in between double-counts: after the second call every ledger
\* entry of the window holds exactly twice the usage_cost, shared_cost and
\* detailed_split amounts the first call gave it.
C11_SecondReadDoubles ==
    SecondReadOfWindow =>
        /\ DOMAIN chargeback_dataset = DOMAIN FirstRead.dataset
        /\ \A k \in DOMAIN chargeback_dataset :
              chargeback_dataset[k] = Doubled(FirstRead.dataset[k])

\* C11: after the second read an entry holds a shared cost that is more
\* than the first one but not twice the first one.
C11_SharedNotTwice ==
    /\ SecondReadOfWindow
    /\ \E k \in DOMAIN chargeback_dataset :
          /\ k \in DOMAIN FirstRead.dataset
          /\ chargeback_dataset[k].shared # FirstRead.dataset[k].shared
          /\ chargeback_dataset[k].shared
                 # DecAddExact(FirstRead.dataset[k].shared,
                               FirstRead.dataset[k].shared)

(***************************************************************************)
(* C12, C13.  What a trigger pushes to the sink.                           *)
(***************************************************************************)

\* The cost dimensions of a ledger entry: usage, shared, and each product
\* type of its detailed_split.
Dimensions(entry) == {"UsageCost", "SharedCost"} \cup DOMAIN entry.detailed_split

\* The value the entry holds for a cost dimension.
ValueOf(entry, cost_type) ==
    IF cost_type = "UsageCost" THEN entry.usage
    ELSE IF cost_type = "SharedCost" THEN entry.shared
    ELSE entry.detailed_split[cost_type]

\* The step is a trigger: a timestamp went to the notifier.
TriggerStep == Len(exposed') = Len(exposed) + 1

\* A trigger exposing the hour next pushed the slice of that hour and nothing
\* else.
SlicePushed(next) ==
    /\ \A call \in pushed' :
          \E k \in DOMAIN chargeback_dataset' :
              /\ k[2] = next
              /\ k[1] = call.principal
              /\ call.cost_type \in Dimensions(chargeback_dataset'[k])
              /\ call.value
                     = ValueOf(chargeback_dataset'[k], call.cost_type)
    /\ \A k \in DOMAIN chargeback_dataset' :
          k[2] = next =>
              \A d \in Dimensions(chargeback_dataset'[k]) :
                  { call \in pushed' :
                        call.principal = k[1] /\ call.cost_type = d }
                      = { SetCall(k[1], d,
                                  ValueOf(chargeback_dataset'[k], d)) }

NoEntryOfHour(dataset, time_slice) ==
    \A k \in DOMAIN dataset : k[2] # time_slice

DigitAt(c, i) == IF i <= Len(c) THEN c[i] ELSE 0

\* x <= y, for naturals given by their digits.
NatLeq(x, y) ==
    LET n == IF Len(x) >= Len(y) THEN Len(x) ELSE Len(y)
    IN  \/ \A i \in 1..n : DigitAt(x, i) = DigitAt(y, i)
        \/ \E i \in 1..n :
              /\ DigitAt(x, i) < DigitAt(y, i)
              /\ \A j \in (i + 1)..n : DigitAt(x, j) = DigitAt(y, j)

\* a <= b, for decimals: equal, or a zero, or the lesser once both are
\* written to the same exponent.
DecLeq(a, b) ==
    \/ a = b
    \/ a.c = <<>>
    \/ LET e == MinInt(a.e, b.e)
       IN  NatLeq(DecAlign(a, e), DecAlign(b, e))

\* The contributions of the rows of a journal, in the order merged.
RECURSIVE MergesOf(_)
MergesOf(entries) ==
    IF entries = <<>> THEN <<>>
    ELSE Head(entries).merges \o MergesOf(Tail(entries))

\* The contributions the step merged for the key: those of the read_all it
\* ran, none when it ran none.
StepMerges(key) ==
    IF last_op' \in {"cleanup_old_data", "update"} THEN <<>>
    ELSE SelectSeq(MergesOf(journal'),
                   LAMBDA m : <<m.principal, m.time_slice>> = key)

\* The amounts after the deltas were added to them one by one.
RECURSIVE UsageAdded(_, _)
UsageAdded(v, merges) ==
    IF merges = <<>> THEN v
    ELSE UsageAdded(DecAdd(v, Head(merges).additional_usage_cost),
                    Tail(merges))

RECURSIVE SharedAdded(_, _)
SharedAdded(v, merges) ==
    IF merges = <<>> THEN v
    ELSE SharedAdded(DecAdd(v, Head(merges).additional_shared_cost),
                     Tail(merges))

RECURSIVE SplitAdded(_, _)
SplitAdded(v, merges) ==
    IF merges = <<>> THEN v
    ELSE SplitAdded(DecAdd(DecAdd(v, Head(merges).additional_shared_cost),
                           Head(merges).additional_usage_cost),
                    Tail(merges))

\* The step may delete the key: it runs cleanup_old_data and the hour of the
\* key is before the cutoff.
MayEvict(key) ==
    /\ last_op' \in {"cleanup_old_data", "read_next_dataset"}
    /\ key[2] < start_date'

\* The entry of the key is still there, none of its amounts is less than it
\* was, and each is the stored amount plus the deltas merged by the step.
EntryGrown(key) ==
    LET old    == chargeback_dataset[key]
        merges == StepMerges(key)
    IN  /\ key \in DOMAIN chargeback_dataset'
        /\ DecLeq(DecZero, old.usage) /\ DecLeq(DecZero, old.shared)
        /\ DecLeq(old.usage, chargeback_dataset'[key].usage)
        /\ DecLeq(old.shared, chargeback_dataset'[key].shared)
        /\ chargeback_dataset'[key].usage = UsageAdded(old.usage, merges)
        /\ chargeback_dataset'[key].shared = SharedAdded(old.shared, merges)
        /\ DOMAIN old.detailed_split
               \subseteq DOMAIN chargeback_dataset'[key].detailed_split
        /\ \A t \in DOMAIN old.detailed_split :
              /\ DecLeq(DecZero, old.detailed_split[t])
              /\ DecLeq(old.detailed_split[t],
                        chargeback_dataset'[key].detailed_split[t])
              /\ chargeback_dataset'[key].detailed_split[t]
                     = SplitAdded(old.detailed_split[t],
                                  SelectSeq(merges,
                                      LAMBDA m : m.product_type_name = t))

\* C14: no operation subtracts except eviction.  In every step, every key
\* of the ledger that the step does not evict stays in the ledger, its
\* usage_cost, shared_cost and detailed_split values are non-negative and do
\* not decrease, and a merge on the key adds the deltas to the stored
\* amounts: the entry is not removed, replaced by a fresh one or overwritten.
C14_NoSubtraction ==
    [][\A key \in DOMAIN chargeback_dataset :
          MayEvict(key) \/ EntryGrown(key)]_vars

\* C14: a second read_all merged onto the keys the first one made, and an
\* entry holds more shared cost than the first read gave it.
C14_MergedOntoExistingKey ==
    /\ SecondReadOfWindow
    /\ \E k \in DOMAIN FirstRead.dataset :
          /\ k \in DOMAIN chargeback_dataset
          /\ DecLeq(FirstRead.dataset[k].shared, chargeback_dataset[k].shared)
          /\ ~DecLeq(chargeback_dataset[k].shared, FirstRead.dataset[k].shared)

(***************************************************************************)
(* C15, C16.  Triggers and advances.                                       *)
(***************************************************************************)

\* The step is a call of read_next_dataset.
AdvanceRuns == advances' = advances + 1

\* C15: the stepper only reads the ledger.  A trigger (update) leaves every
\* ledger entry and the window start unchanged and changes only the cursor
\* and what went to the notifier and the sink; a window advance
\* (read_next_dataset) leaves the cursor, and what went to the notifier and
\* the sink, unchanged.
C15_StepperOnlyReads ==
    [][/\ (TriggerStep /\ last_op' = "update") =>
             /\ chargeback_dataset' = chargeback_dataset
             /\ start_date' = start_date
             /\ days_per_query' = days_per_query
             /\ billing_dataset' = billing_dataset
             /\ curr_export_datetime' # curr_export_datetime
       /\ AdvanceRuns =>
             /\ curr_export_datetime' = curr_export_datetime
             /\ exposed' = exposed
             /\ pushed' = pushed
             /\ start_date' # start_date]_vars

\* C15: triggers pushed entries of the ledger and left them there, and an
\* advance after them left the cursor inside the window it evicted.
C15_AdvanceAfterTriggers ==
    /\ last_op = "read_next_dataset"
    /\ Len(exposed) >= 2
    /\ pushed # {}
    /\ evicted # {}
    /\ curr_export_datetime < start_date

\* The hours that went to the notifier.
ExposedHours == { exposed[i] : i \in DOMAIN exposed }

\* C16: no computed hour is lost to the consumer.  Whatever the order of
\* triggers (update) and advances (read_next_dataset), an advance evicts
\* only entries whose hour has been exposed: when it runs, the cursor is at
\* or past the last hour it evicts.
C16_EvictedAfterExposed ==
    (phase = "ready" /\ last_op = "read_next_dataset") =>
        \A k \in evicted :
            /\ k[2] \in ExposedHours
            /\ k[2] <= curr_export_datetime

\* C16: the trigger for an hour came after an advance had evicted the
\* entries of that hour, and pushed nothing.
C16_HourExposedAfterEviction ==
    /\ phase = "ready"
    /\ last_op = "update"
    /\ advances > 0
    /\ pushed = {}
    /\ \E k \in evicted : k[2] = curr_export_datetime

(***************************************************************************)
(* C17.  The order of the merges.                                          *)
(***************************************************************************)

Reverse(s) == [i \in 1..Len(s) |-> s[Len(s) + 1 - i]]

\* What the constructor computes when the provider gives the billing rows
\* in the opposite order.
ReversedRows ==
    read_all(EmptyDataset, Reverse(billing_dataset), start_date,
             start_date + Days(days_per_query))

\* C17: merging is order-independent.  Applying the contributions
\* __add_cost_to_chargeback_dataset received in another order gives the same
\* ledger (same keys, same usage_cost, shared_cost and detailed_split per
\* key); so the ledger the constructor computed is the one it computes from
\* the billing rows in the opposite order, and the one the contributions
\* give when merged in the opposite order.
C17_MergeOrderIndependent ==
    (phase = "ready" /\ last_op = "__post_init__") =>
        /\ chargeback_dataset = ReversedRows.dataset
        /\ chargeback_dataset
               = AddAll(EmptyDataset, Reverse(MergesOf(journal)))

\* C17: two billing rows were processed without exception, and in the
\* opposite order they give the same keys but not the same amounts.
C17_RowOrderChangesLedger ==
    /\ phase = "ready"
    /\ last_op = "__post_init__"
    /\ Len(billing_dataset) = 2
    /\ ReversedRows.exc = "none"
    /\ DOMAIN chargeback_dataset = DOMAIN ReversedRows.dataset
    /\ chargeback_dataset # ReversedRows.dataset

=============================================================================
